---- MODULE Spec2Model ----
(***************************************************************************)
(* Scene/state synchronisation of the AIMUD text adventure: the            *)
(* DungeonMaster (scenario, scene memory, scene resolution, action         *)
(* resolution), the GameState merge of action results, the entity model    *)
(* and the turn loop of main.py.                                           *)
(*                                                                         *)
(* Python objects are modelled with their identity where the code shares   *)
(* them: connection dicts live in the heap `dicts`, Scene objects in the   *)
(* heap `sceneObjs`; a reference is an index into the heap, 0 is None.     *)
(* A dict with optional keys is a function whose DOMAIN holds the keys     *)
(* present.                                                                *)
(***************************************************************************)
EXTENDS Integers, Sequences, FiniteSets, TLC

VARIABLES
    scenario,        \* DungeonMaster.scenario (also GameState.scenario: same object)
    scene_memory,    \* DungeonMaster.scene_memory: scene id -> raw scene data
    dicts,           \* heap of connection dicts (location name -> scene id)
    sceneObjs,       \* heap of Scene objects
    player,          \* GameState.player (NoneV or a Player)
    current_scene,   \* GameState.current_scene: reference into sceneObjs, 0 = None
    scene_history,   \* GameState.scene_history: sequence of Scene references
    is_game_over,    \* GameState.is_game_over
    ending_message,  \* GameState.ending_message
    pc,              \* position of main(): "new", "scenario", "player", "loop", "over", "crashed"
    ops,             \* number of operations performed so far
    op,              \* the operation that produced this state
    calls,           \* generator (client API) calls made by that operation
    raised,          \* exception that escaped the operation's call ("None" if none)
    arg,             \* the operation's inputs (target id, result, generator outcomes)
    ret,             \* the operation's return value
    pre,             \* the state fields the operation started from
    first_ret        \* scene id -> characters/connections of the first Scene resolved for it

vars == <<scenario, scene_memory, dicts, sceneObjs, player, current_scene,
          scene_history, is_game_over, ending_message, pc, ops, op, calls,
          raised, arg, ret, pre, first_ret>>

-----------------------------------------------------------------------------
(* Python values *)

\* None, and a JSON null inside a payload
NoneV == [none |-> TRUE]
Null == "<null>"

\* {} : the empty dict
EmptyDict == [k \in {} |-> ""]

\* d[k] = v
Put(d, k, v) == [x \in (DOMAIN d) \cup {k} |-> IF x = k THEN v ELSE d[x]]

\* del d[k]
Del(d, k) == [x \in (DOMAIN d) \ {k} |-> d[x]]

\* d.get(k, default)
Get(d, k, default) == IF k \in DOMAIN d THEN d[k] ELSE default


-----------------------------------------------------------------------------
(* Entity model: app/character/base.py, npc.py, player.py *)

\* Item(name, description, properties)
Item(item_data) ==
    [name |-> item_data["name"],
     description |-> item_data["description"],
     properties |-> Get(item_data, "properties", EmptyDict)]

\* Skill(name, description, cost, properties)
Skill(skill_data) ==
    [name |-> skill_data["name"],
     description |-> skill_data["description"],
     cost |-> skill_data["cost"],
     properties |-> Get(skill_data, "properties", EmptyDict)]

ItemOk(item_data) == {"name", "description"} \subseteq DOMAIN item_data
SkillOk(skill_data) == {"name", "description", "cost"} \subseteq DOMAIN skill_data

\* Character defaults: health "healthy", energy "energized", empty status
Player(name, description, inventory, skills) ==
    [name |-> name, description |-> description, health |-> "healthy",
     energy |-> "energized", status |-> EmptyDict, inventory |-> inventory,
     skills |-> skills]

\* NPC adds attitude (default "neutral") and an NPC-only property map
NPC(name, description, attitude, inventory, skills) ==
    [name |-> name, description |-> description, health |-> "healthy",
     energy |-> "energized", status |-> EmptyDict, inventory |-> inventory,
     skills |-> skills, attitude |-> attitude, properties |-> EmptyDict]

\* variant: every value of the delta is stored, null included
MergeMapStoreNull(m, upd) ==
    [k \in (DOMAIN m) \cup (DOMAIN upd) |-> IF k \in DOMAIN upd THEN upd[k] ELSE m[k]]

\* The null-deletes-key merge of base.py 43-48 and npc.py 22-27: a null value
\* deletes the key only when the key is present, any other case stores the value.
MergeMap(m, upd) ==
    LET deleted == {k \in DOMAIN upd : upd[k] = Null /\ k \in DOMAIN m}
        keys == ((DOMAIN m) \ deleted) \cup ((DOMAIN upd) \ deleted)
    IN [k \in keys |-> IF k \in DOMAIN upd THEN upd[k] ELSE m[k]]

\* variant: an item whose name is already held is not added again
RECURSIVE AddItemsOnce(_, _)
AddItemsOnce(inventory, add_items) ==
    IF add_items = <<>> THEN [inv |-> inventory, exc |-> "None"]
    ELSE IF ~ItemOk(Head(add_items)) THEN [inv |-> inventory, exc |-> "KeyError"]
    ELSE IF \E i \in 1..Len(inventory) : inventory[i].name = Head(add_items)["name"]
    THEN AddItemsOnce(inventory, Tail(add_items))
    ELSE AddItemsOnce(Append(inventory, Item(Head(add_items))), Tail(add_items))

\* for item_data in updates['add_items']: append Item(...). A KeyError at
\* the first entry without name or description keeps the items appended so far.
RECURSIVE AddItems(_, _)
AddItems(inventory, add_items) ==
    IF add_items = <<>> THEN [inv |-> inventory, exc |-> "None"]
    ELSE IF ~ItemOk(Head(add_items)) THEN [inv |-> inventory, exc |-> "KeyError"]
    ELSE AddItems(Append(inventory, Item(Head(add_items))), Tail(add_items))

\* for the variant below: the inventory without the first item of that name
RECURSIVE WithoutFirst(_, _)
WithoutFirst(inventory, n) ==
    IF inventory = <<>> THEN <<>>
    ELSE IF Head(inventory).name = n THEN Tail(inventory)
    ELSE <<Head(inventory)>> \o WithoutFirst(Tail(inventory), n)

\* variant: list.remove semantics, only the first item of each name is dropped
RECURSIVE RemoveItemsFirst(_, _)
RemoveItemsFirst(inventory, remove_items) ==
    IF remove_items = <<>> THEN inventory
    ELSE RemoveItemsFirst(WithoutFirst(inventory, Head(remove_items)), Tail(remove_items))

\* for item_name in updates['remove_items']: drop every item of that name
RECURSIVE RemoveItems(_, _)
RemoveItems(inventory, remove_items) ==
    IF remove_items = <<>> THEN inventory
    ELSE LET n == Head(remove_items)
             Keep(item) == item.name # n
         IN RemoveItems(SelectSeq(inventory, Keep), Tail(remove_items))

\* variant: health and energy fall back to their defaults when the delta
\* does not name them
UpdateStatsDefaults(c, updates) ==
    [c EXCEPT !.health = Get(updates, "health", "healthy"),
              !.energy = Get(updates, "energy", "energized"),
              !.status = IF "status" \in DOMAIN updates
                         THEN MergeMap(@, updates["status"]) ELSE @]

\* Character.update(updates), lines 37-48: health, energy and status
UpdateStats(c, updates) ==
    [c EXCEPT !.health = IF "health" \in DOMAIN updates THEN updates["health"] ELSE @,
              !.energy = IF "energy" \in DOMAIN updates THEN updates["energy"] ELSE @,
              !.status = IF "status" \in DOMAIN updates
                         THEN MergeMap(@, updates["status"]) ELSE @]

\* lines 50-57: add_items
UpdateAddItems(c, updates, added) ==
    [c |-> [c EXCEPT !.inventory = added.inv], exc |-> added.exc]

\* lines 59-61: remove_items, not reached when add_items raised
UpdateRemoveItems(r, updates) ==
    IF r.exc # "None" \/ "remove_items" \notin DOMAIN updates THEN r
    ELSE [r EXCEPT !.c.inventory = RemoveItems(@, updates["remove_items"])]

\* Character.update(updates): returns the character as left by the call and
\* the exception that escaped it.
CharacterUpdate(c, updates) ==
    UpdateRemoveItems(
        UpdateAddItems(UpdateStats(c, updates), updates,
            AddItems(UpdateStats(c, updates).inventory, Get(updates, "add_items", <<>>))),
        updates)

\* variant: the property map of the delta replaces the NPC's
NPCExtrasReplace(base, updates) ==
    IF base.exc # "None" THEN base
    ELSE [base EXCEPT
            !.c.attitude = IF "attitude" \in DOMAIN updates THEN updates["attitude"] ELSE @,
            !.c.properties = IF "properties" \in DOMAIN updates
                             THEN updates["properties"] ELSE @]

\* npc.py 19-27: attitude and the NPC property map, after the Character merge
NPCExtras(base, updates) ==
    IF base.exc # "None" THEN base
    ELSE [base EXCEPT
            !.c.attitude = IF "attitude" \in DOMAIN updates THEN updates["attitude"] ELSE @,
            !.c.properties = IF "properties" \in DOMAIN updates
                             THEN MergeMap(@, updates["properties"]) ELSE @]

\* NPC.update(updates)
NPCUpdate(c, updates) == NPCExtras(CharacterUpdate(c, updates), updates)

\* Character.is_alive
IsAlive(c) == c.health \notin {"dead", "deceased", "unconscious"}

-----------------------------------------------------------------------------
(* World graph: app/world/scene.py *)

\* Scene(id, title, description, characters, connections); connections is a
\* reference to a dict of the heap, the dict object handed to the constructor.
Scene(id, title, description, characters, connections) ==
    [id |-> id, title |-> title, description |-> description,
     characters |-> characters, connections |-> connections]

\* Scene.add_character
AddCharacter(scene, npc) == [scene EXCEPT !.characters = Append(@, npc)]

\* Scene.remove_character
RemoveCharacter(scene, character_name) ==
    LET Keep(c) == c.name # character_name
    IN [scene EXCEPT !.characters = SelectSeq(@, Keep)]

\* variant: an unknown name yields the first character of the scene
GetCharacterOrFirst(scene, character_name) ==
    LET hits == {i \in 1..Len(scene.characters) : scene.characters[i].name = character_name}
    IN IF hits = {} THEN (IF scene.characters = <<>> THEN 0 ELSE 1)
       ELSE CHOOSE i \in hits : \A j \in hits : i <= j

\* Scene.get_character: position of the first character of that name, 0 for None
GetCharacter(scene, character_name) ==
    LET hits == {i \in 1..Len(scene.characters) : scene.characters[i].name = character_name}
    IN IF hits = {} THEN 0 ELSE CHOOSE i \in hits : \A j \in hits : i <= j

\* Scene.add_connection, on the dict the scene refers to
AddConnection(heap, scene, location_name, scene_id) ==
    [heap EXCEPT ![scene.connections] = Put(@, location_name, scene_id)]

\* Scene.remove_connection
RemoveConnection(heap, scene, location_name) ==
    [heap EXCEPT ![scene.connections] = Del(@, location_name)]

-----------------------------------------------------------------------------
(* Content generator gateway: app/utils/llm_utils.py *)

\* What the external generator does on one call: the transport fails, the
\* text is not parseable even by the fallback scan, or it parses to data.
Transport == [kind |-> "transport"]
Malformed == [kind |-> "malformed"]
Json(data) == [kind |-> "json", data |-> data]

\* The provider has no client for the model's provider: get_client raises
\* ValueError (lines 87-89) and the generator is not reached.
NoClient == [kind |-> "no_client"]

-----------------------------------------------------------------------------
(* DungeonMaster: app/ai/dungeon_master.py *)

\* a falsy scene id: None, a missing "id" key or the empty string
NoId == ""

\* variant: only the presence of the three keys is checked
ValidateScenarioKeysOnly(s) ==
    IF ~({"title", "scenes", "starting_scene_id"} \subseteq DOMAIN s) THEN "ValueError"
    ELSE "None"

\* _validate_scenario
ValidateScenario(s) ==
    IF ~({"title", "scenes", "starting_scene_id"} \subseteq DOMAIN s) THEN "ValueError"
    ELSE IF s["starting_scene_id"] \notin DOMAIN s["scenes"] THEN "ValueError"
    ELSE "None"

\* _validate_character_data
ValidateCharacterData(data) ==
    IF ~({"inventory", "skills"} \subseteq DOMAIN data) THEN "ValueError"
    ELSE IF \E i \in 1..Len(data["inventory"]) : ~ItemOk(data["inventory"][i]) THEN "ValueError"
    ELSE IF \E i \in 1..Len(data["skills"]) : ~SkillOk(data["skills"][i]) THEN "ValueError"
    ELSE "None"

\* _validate_scene_data
ValidateSceneData(data) ==
    IF "title" \notin DOMAIN data THEN "ValueError"
    ELSE IF "description" \notin DOMAIN data THEN "ValueError"
    ELSE "None"

\* _validate_action_result
ValidateActionResult(result) ==
    IF "success" \notin DOMAIN result THEN "ValueError"
    ELSE IF "description" \notin DOMAIN result THEN "ValueError"
    ELSE "None"

\* The validator handed to call_llm_with_json_response, applied to parsed data.
Validate(validator, data) ==
    CASE validator = "_validate_scenario" -> ValidateScenario(data)
      [] validator = "_validate_character_data" -> ValidateCharacterData(data)
      [] validator = "_validate_scene_data" -> ValidateSceneData(data)
      [] validator = "_validate_action_result" -> ValidateActionResult(data)

\* The try block of call_llm_with_json_response, lines 120-174: the exception
\* it ends with and the client calls it made. get_client raises ValueError
\* before any call; the one client call (135 or 148) may raise; extract_json
\* raises json.JSONDecodeError; the validator raises ValueError.
CallLLMBody(outcome, validator) ==
    IF outcome.kind = "no_client" THEN [exc |-> "ValueError", calls |-> 0]
    ELSE IF outcome.kind = "transport" THEN [exc |-> "APIError", calls |-> 1]
    ELSE IF outcome.kind = "malformed" THEN [exc |-> "JSONDecodeError", calls |-> 1]
    ELSE IF Validate(validator, outcome.data) # "None"
    THEN [exc |-> Validate(validator, outcome.data), calls |-> 1]
    ELSE [exc |-> "None", calls |-> 1, data |-> outcome.data]

\* the handlers of 176-183, applied to what the try block did
Translate(body) ==
    IF body.exc = "None" THEN body
    ELSE IF body.exc = "JSONDecodeError"
    THEN [exc |-> "LLMResponseError", calls |-> body.calls,
          msg |-> "Failed to parse JSON response"]
    ELSE [exc |-> "LLMResponseError", calls |-> body.calls,
          msg |-> "Error making LLM call"]

\* variant: only the handler of 176-179 exists, other errors escape as they are
TranslateParseOnly(body) ==
    IF body.exc = "None" THEN body
    ELSE IF body.exc = "JSONDecodeError"
    THEN [exc |-> "LLMResponseError", calls |-> body.calls,
          msg |-> "Failed to parse JSON response"]
    ELSE [exc |-> body.exc, calls |-> body.calls, msg |-> ""]

\* variant: a failed call is tried a second time before the error is raised
CallLLMRetry(outcome, validator) ==
    IF CallLLMBody(outcome, validator).exc = "None" \/ outcome.kind = "no_client"
    THEN Translate(CallLLMBody(outcome, validator))
    ELSE [Translate(CallLLMBody(outcome, validator)) EXCEPT !.calls = 2]

\* variant: see TranslateParseOnly
CallLLMParseOnly(outcome, validator) == TranslateParseOnly(CallLLMBody(outcome, validator))

\* call_llm_with_json_response: every failure leaves as LLMResponseError
\* with a message; there is no second client call.
CallLLM(outcome, validator) == Translate(CallLLMBody(outcome, validator))

\* json.loads builds a fresh dict object for the "connections" of a scene
\* payload: the parsed scene data refers to it at heap position base + 1.
ParsedScene(p, base) ==
    IF "connections" \in DOMAIN p THEN [p EXCEPT !["connections"] = base + 1] ELSE p

ParsedSceneDicts(p, heap) ==
    IF "connections" \in DOMAIN p THEN Append(heap, p["connections"]) ELSE heap

\* one character of scene data can be built: lines 292-322 raise KeyError otherwise
CharDataOk(char_data) ==
    /\ {"name", "description"} \subseteq DOMAIN char_data
    /\ \A i \in 1..Len(Get(char_data, "inventory", <<>>)) : ItemOk(char_data["inventory"][i])
    /\ \A i \in 1..Len(Get(char_data, "skills", <<>>)) : SkillOk(char_data["skills"][i])

\* the NPC built from one entry of scene_data["characters"]
NPCFromData(char_data) ==
    LET inv == Get(char_data, "inventory", <<>>)
        sk == Get(char_data, "skills", <<>>)
    IN NPC(char_data["name"], char_data["description"],
           Get(char_data, "attitude", "neutral"),
           [i \in 1..Len(inv) |-> Item(inv[i])],
           [i \in 1..Len(sk) |-> Skill(sk[i])])

\* _create_scene_from_data(scene_data, scene_id): the new Scene object is
\* appended to the Scene heap; its connections are the dict of scene_data
\* itself when the key is present, a fresh empty dict otherwise.
CreateSceneFromData(scene_data, scene_id_arg, heap, objs) ==
    LET scene_id == IF scene_id_arg = NoId THEN Get(scene_data, "id", NoId) ELSE scene_id_arg
        chars == Get(scene_data, "characters", <<>>)
        has_conn == "connections" \in DOMAIN scene_data
        heap2 == IF has_conn THEN heap ELSE Append(heap, EmptyDict)
        conn == IF has_conn THEN scene_data["connections"] ELSE Len(heap) + 1
    IN IF \E i \in 1..Len(chars) : ~CharDataOk(chars[i])
       THEN [exc |-> "KeyError", scene |-> 0, dicts |-> heap, sceneObjs |-> objs]
       ELSE IF scene_id = NoId
       THEN [exc |-> "ValueError", scene |-> 0, dicts |-> heap, sceneObjs |-> objs]
       ELSE IF ~({"title", "description"} \subseteq DOMAIN scene_data)
       THEN [exc |-> "KeyError", scene |-> 0, dicts |-> heap, sceneObjs |-> objs]
       ELSE [exc |-> "None", scene |-> Len(objs) + 1, dicts |-> heap2,
             sceneObjs |-> Append(objs,
                 Scene(scene_id, scene_data["title"], scene_data["description"],
                       [i \in 1..Len(chars) |-> NPCFromData(chars[i])], conn))]

\* variant: a predefined scene visited before keeps the characters it had
\* when it was last built
CreateSceneFromScenarioRevisit(scn, scene_id, heap, objs) ==
    IF "scenes" \notin DOMAIN scn \/ scene_id \notin DOMAIN scn["scenes"]
    THEN [exc |-> "KeyError", scene |-> 0, dicts |-> heap, sceneObjs |-> objs]
    ELSE IF \E i \in 1..Len(objs) : objs[i].id = scene_id
    THEN [exc |-> "None", scene |-> Len(objs) + 1, dicts |-> heap,
          sceneObjs |-> Append(objs,
              objs[CHOOSE i \in 1..Len(objs) :
                       /\ objs[i].id = scene_id
                       /\ \A j \in 1..Len(objs) : objs[j].id = scene_id => j <= i])]
    ELSE CreateSceneFromData(scn["scenes"][scene_id], scene_id, heap, objs)

\* _create_scene_from_scenario(scene_id)
CreateSceneFromScenario(scn, scene_id, heap, objs) ==
    IF "scenes" \notin DOMAIN scn \/ scene_id \notin DOMAIN scn["scenes"]
    THEN [exc |-> "KeyError", scene |-> 0, dicts |-> heap, sceneObjs |-> objs]
    ELSE CreateSceneFromData(scn["scenes"][scene_id], scene_id, heap, objs)

\* the two fallback dicts of _generate_new_scene, 426-437 and 443-454: the
\* connections dict is new, with "Path Back" when a current scene exists
FallbackTitle(exc) == IF exc = "LLMResponseError" THEN "Mysterious Area" ELSE "Unexpected Area"

\* lines 435 and 452: a way back only if game_state.current_scene
FallbackConnections(objs, cur) ==
    IF cur # 0 THEN Put(EmptyDict, "Path Back", objs[cur].id) ELSE EmptyDict

FallbackScene(exc, scene_id, heap, objs, cur) ==
    LET heap2 == Append(heap, FallbackConnections(objs, cur))
        fallback_scene == [id |-> scene_id, title |-> FallbackTitle(exc),
                           description |-> "fallback", connections |-> Len(heap2),
                           characters |-> <<>>]
    IN CreateSceneFromData(fallback_scene, scene_id, heap2, objs)

\* variant: lines 418-419 are missing, the payload is not remembered
GenerateNewSceneForgetful(mem, heap, objs, cur, scene_id, outcome) ==
    LET r == CallLLM(outcome, "_validate_scene_data")
    IN IF r.exc # "None"
       THEN FallbackScene(r.exc, scene_id, heap, objs, cur)
                @@ [scene_memory |-> mem, calls |-> r.calls, fallback |-> TRUE]
       ELSE LET scene_data == ParsedScene(r.data, Len(heap))
                heap2 == ParsedSceneDicts(r.data, heap)
                built == CreateSceneFromData(scene_data, scene_id, heap2, objs)
            IN IF built.exc = "None"
               THEN built @@ [scene_memory |-> mem, calls |-> r.calls, fallback |-> FALSE]
               ELSE FallbackScene(built.exc, scene_id, heap2, objs, cur)
                        @@ [scene_memory |-> mem, calls |-> r.calls, fallback |-> TRUE]

\* _generate_new_scene(game_state, scene_id) with the generator's outcome
GenerateNewScene(mem, heap, objs, cur, scene_id, outcome) ==
    LET r == CallLLM(outcome, "_validate_scene_data")
    IN IF r.exc # "None"
       THEN FallbackScene(r.exc, scene_id, heap, objs, cur)
                @@ [scene_memory |-> mem, calls |-> r.calls, fallback |-> TRUE]
       ELSE LET scene_data == ParsedScene(r.data, Len(heap))
                heap2 == ParsedSceneDicts(r.data, heap)
                mem2 == Put(mem, scene_id, scene_data)
                built == CreateSceneFromData(scene_data, scene_id, heap2, objs)
            IN IF built.exc = "None"
               THEN built @@ [scene_memory |-> mem2, calls |-> r.calls, fallback |-> FALSE]
               ELSE FallbackScene(built.exc, scene_id, heap2, objs, cur)
                        @@ [scene_memory |-> mem2, calls |-> r.calls, fallback |-> TRUE]

\* variant: a predefined definition is remembered when it is resolved
CreateSceneRememberAll(scn, mem, heap, objs, cur, target, outcome) ==
    LET same == [scene_memory |-> mem, calls |-> 0, fallback |-> FALSE]
    IN IF cur = 0 /\ target = NoId
       THEN IF "starting_scene_id" \notin DOMAIN scn
            THEN [exc |-> "KeyError", scene |-> 0, dicts |-> heap, sceneObjs |-> objs] @@ same
            ELSE CreateSceneFromScenario(scn, scn["starting_scene_id"], heap, objs) @@ same
       ELSE IF target # NoId
       THEN IF target \in DOMAIN Get(scn, "scenes", EmptyDict)
            THEN CreateSceneFromScenario(scn, target, heap, objs)
                     @@ [scene_memory |-> Put(mem, target, scn["scenes"][target]),
                         calls |-> 0, fallback |-> FALSE]
            ELSE IF target \in DOMAIN mem
            THEN CreateSceneFromData(mem[target], NoId, heap, objs) @@ same
            ELSE GenerateNewScene(mem, heap, objs, cur, target, outcome)
       ELSE [exc |-> "None", scene |-> cur, dicts |-> heap, sceneObjs |-> objs] @@ same

\* variant: without a target, the current scene is handed back as a new
\* Scene object holding the same values
CreateSceneCopy(scn, mem, heap, objs, cur, target, outcome) ==
    LET same == [scene_memory |-> mem, calls |-> 0, fallback |-> FALSE]
    IN IF cur = 0 /\ target = NoId
       THEN IF "starting_scene_id" \notin DOMAIN scn
            THEN [exc |-> "KeyError", scene |-> 0, dicts |-> heap, sceneObjs |-> objs] @@ same
            ELSE CreateSceneFromScenario(scn, scn["starting_scene_id"], heap, objs) @@ same
       ELSE IF target # NoId
       THEN IF target \in DOMAIN Get(scn, "scenes", EmptyDict)
            THEN CreateSceneFromScenario(scn, target, heap, objs) @@ same
            ELSE IF target \in DOMAIN mem
            THEN CreateSceneFromData(mem[target], NoId, heap, objs) @@ same
            ELSE GenerateNewScene(mem, heap, objs, cur, target, outcome)
       ELSE [exc |-> "None", scene |-> Len(objs) + 1, dicts |-> heap,
             sceneObjs |-> Append(objs, objs[cur])] @@ same

\* create_scene(game_state, target_scene_id); target NoId is "no target".
\* outcome is what the generator does if it is called.
CreateScene(scn, mem, heap, objs, cur, target, outcome) ==
    LET same == [scene_memory |-> mem, calls |-> 0, fallback |-> FALSE]
    IN IF cur = 0 /\ target = NoId
       THEN IF "starting_scene_id" \notin DOMAIN scn
            THEN [exc |-> "KeyError", scene |-> 0, dicts |-> heap, sceneObjs |-> objs] @@ same
            ELSE CreateSceneFromScenario(scn, scn["starting_scene_id"], heap, objs) @@ same
       ELSE IF target # NoId
       THEN IF target \in DOMAIN Get(scn, "scenes", EmptyDict)
            THEN CreateSceneFromScenario(scn, target, heap, objs) @@ same
            ELSE IF target \in DOMAIN mem
            THEN CreateSceneFromData(mem[target], NoId, heap, objs) @@ same
            ELSE GenerateNewScene(mem, heap, objs, cur, target, outcome)
       ELSE [exc |-> "None", scene |-> cur, dicts |-> heap, sceneObjs |-> objs] @@ same

\* variant: the failure result also ends the game
ActionFailureOver(exc) ==
    [success |-> FALSE,
     description |-> "Something went wrong. Please try your action again.",
     error |-> exc, game_over |-> TRUE]

\* the failure results of resolve_action, 582-595
ActionFailure(exc) ==
    [success |-> FALSE,
     description |-> IF exc = "LLMResponseError"
                     THEN "I'm having trouble understanding what happened."
                     ELSE "Something went wrong. Please try your action again.",
     error |-> exc]

\* variant: the handlers of 582-595 are missing and the error propagates
ResolveActionRaising(outcome) ==
    LET r == CallLLM(outcome, "_validate_action_result")
    IN IF r.exc # "None"
       THEN [exc |-> r.exc, result |-> [error |-> r.exc], calls |-> r.calls]
       ELSE [exc |-> "None", result |-> r.data, calls |-> r.calls]

\* resolve_action(action, game_state) with the generator's outcome: the
\* validated payload, or a failure result; nothing is raised.
ResolveAction(outcome) ==
    LET r == CallLLM(outcome, "_validate_action_result")
    IN IF r.exc # "None"
       THEN [exc |-> "None", result |-> ActionFailure(r.exc), calls |-> r.calls]
       ELSE [exc |-> "None", result |-> r.data, calls |-> r.calls]

-----------------------------------------------------------------------------
(* GameState: app/game_engine/state.py *)

\* The mutable view GameState.update works on: the GameState fields and the
\* two heaps its Scene objects live in.
GS(pl, heap, objs, cur, hist, over, msg) ==
    [player |-> pl, dicts |-> heap, sceneObjs |-> objs, current_scene |-> cur,
     scene_history |-> hist, is_game_over |-> over, ending_message |-> msg]

\* a step of update: the view it leaves and the exception it raised
Step(gs, exc) == [gs |-> gs, exc |-> exc]

\* lines 24-25: the player delta
PlayerDelta(gs, u) == Step([gs EXCEPT !.player = u.c], u.exc)

UpdatePlayer(gs, result) ==
    IF gs.player # NoneV /\ "player_updates" \in DOMAIN result
    THEN PlayerDelta(gs, CharacterUpdate(gs.player, result["player_updates"]))
    ELSE Step(gs, "None")

\* line 32: character.update(updates) on the character found at position i
NPCDelta(scene, i, u) == [scene |-> [scene EXCEPT !.characters[i] = u.c], exc |-> u.exc]

\* lines 29-32: for character_name, updates in character_updates.items();
\* the items are a sequence of <<name, updates>> in the dict's order
RECURSIVE ApplyCharacterUpdates(_, _)
ApplyCharacterUpdates(r, items) ==
    IF items = <<>> \/ r.exc # "None" THEN r
    ELSE IF GetCharacter(r.scene, Head(items)[1]) = 0
    THEN ApplyCharacterUpdates(r, Tail(items))
    ELSE ApplyCharacterUpdates(
             NPCDelta(r.scene, GetCharacter(r.scene, Head(items)[1]),
                      NPCUpdate(r.scene.characters[GetCharacter(r.scene, Head(items)[1])],
                                Head(items)[2])),
             Tail(items))

\* the current scene object replaced by what a step made of it
SceneDelta(gs, u) == Step([gs EXCEPT !.sceneObjs[gs.current_scene] = u.scene], u.exc)

\* lines 28-32: the per-NPC deltas on the current scene
UpdateNPCs(s, result) ==
    IF s.exc # "None" THEN s
    ELSE IF s.gs.current_scene # 0 /\ "character_updates" \in DOMAIN result
    THEN SceneDelta(s.gs,
             ApplyCharacterUpdates([scene |-> s.gs.sceneObjs[s.gs.current_scene],
                                    exc |-> "None"],
                                   result["character_updates"]))
    ELSE s

\* lines 39-46: a KeyError at the first entry without name or description
RECURSIVE AddCharacters(_, _)
AddCharacters(scene, add_characters) ==
    IF add_characters = <<>> THEN [scene |-> scene, exc |-> "None"]
    ELSE IF ~({"name", "description"} \subseteq DOMAIN Head(add_characters))
    THEN [scene |-> scene, exc |-> "KeyError"]
    ELSE AddCharacters(
             AddCharacter(scene, NPC(Head(add_characters)["name"],
                                     Head(add_characters)["description"],
                                     Get(Head(add_characters), "attitude", "neutral"),
                                     <<>>, <<>>)),
             Tail(add_characters))

\* lines 49-51
RECURSIVE RemoveCharacters(_, _)
RemoveCharacters(scene, names) ==
    IF names = <<>> THEN scene
    ELSE RemoveCharacters(RemoveCharacter(scene, Head(names)), Tail(names))

\* lines 54-56: every new connection is written into the scene's dict
NewConnections(heap, scene, new_connections) ==
    [heap EXCEPT ![scene.connections] =
        [k \in (DOMAIN @) \cup (DOMAIN new_connections) |->
            IF k \in DOMAIN new_connections THEN new_connections[k] ELSE @[k]]]

\* lines 48-56, reached when add_characters did not raise
SceneRemoveAndConnect(gs, su, added) ==
    IF added.exc # "None" THEN SceneDelta(gs, added)
    ELSE Step([gs EXCEPT
                 !.sceneObjs[gs.current_scene] =
                     RemoveCharacters(added.scene, Get(su, "remove_characters", <<>>)),
                 !.dicts = NewConnections(@, added.scene,
                                          Get(su, "new_connections", EmptyDict))],
              "None")

\* lines 35-56: the scene deltas
UpdateScene(s, result) ==
    IF s.exc # "None" THEN s
    ELSE IF s.gs.current_scene # 0 /\ "scene_updates" \in DOMAIN result
    THEN SceneRemoveAndConnect(s.gs, result["scene_updates"],
             AddCharacters(s.gs.sceneObjs[s.gs.current_scene],
                           Get(result["scene_updates"], "add_characters", <<>>)))
    ELSE s

\* a truthy move_to_scene: the key is present and holds a non-empty id
MoveTarget(result) ==
    IF "move_to_scene" \in DOMAIN result /\ result["move_to_scene"] # Null
    THEN result["move_to_scene"] ELSE NoId

\* variant: the history keeps the last scene left only
PushHistoryLastOnly(s, result) ==
    IF s.exc # "None" THEN s
    ELSE IF MoveTarget(result) # NoId /\ s.gs.current_scene # 0
    THEN [s EXCEPT !.gs.scene_history = <<s.gs.current_scene>>]
    ELSE s

\* lines 59-62: the current scene object is appended to the history
PushHistory(s, result) ==
    IF s.exc # "None" THEN s
    ELSE IF MoveTarget(result) # NoId /\ s.gs.current_scene # 0
    THEN [s EXCEPT !.gs.scene_history = Append(@, s.gs.current_scene)]
    ELSE s

\* variant: the flag is assigned from the result instead of only being set
CheckGameOverAssign(s, result) ==
    IF s.exc # "None" THEN s
    ELSE IF "game_over" \in DOMAIN result
    THEN [s EXCEPT !.gs.is_game_over = result["game_over"],
                   !.gs.ending_message = Get(result, "ending_message", "Game Over")]
    ELSE s

\* lines 66-68
CheckGameOver(s, result) ==
    IF s.exc # "None" THEN s
    ELSE IF "game_over" \in DOMAIN result /\ result["game_over"] = TRUE
    THEN [s EXCEPT !.gs.is_game_over = TRUE,
                   !.gs.ending_message = Get(result, "ending_message", "Game Over")]
    ELSE s

\* GameState.update(result): the steps in the order of the code; an
\* exception leaves what the earlier steps have already written.
GameStateUpdate(gs, result) ==
    CheckGameOver(
        PushHistory(
            UpdateScene(UpdateNPCs(UpdatePlayer(gs, result), result), result),
            result),
        result)

-----------------------------------------------------------------------------
(* What the generator may answer: payloads of the shapes the system prompts
   of dungeon_master.py ask for, well formed and not *)

\* ids of predefined scenes and ids only the generator can fill
Ids == {"entrance", "library", "cave", "crypt"}

Guard == [name |-> "Guard", description |-> "a tired guard", attitude |-> "friendly",
          inventory |-> <<[name |-> "Key", description |-> "an iron key"]>>]

Hermit == [name |-> "Hermit", description |-> "a silent hermit"]

\* a scenario as the prompt asks for it
ScenarioGood ==
    [title |-> "The Sunken Keep", setting |-> "a keep", objective |-> "find the crown",
     starting_scene_id |-> "entrance",
     scenes |-> [entrance |-> [title |-> "Entrance", description |-> "a gate",
                               connections |-> [Ancient_Library |-> "library",
                                                Dark_Passage |-> "cave"],
                               characters |-> <<Guard>>],
                 library |-> [title |-> "Library", description |-> "dusty shelves",
                              connections |-> [Entrance_Hall |-> "entrance"]]]]

\* passes _validate_scenario, but the library lacks its title
ScenarioNoTitle ==
    [title |-> "The Sunken Keep", setting |-> "a keep", objective |-> "find the crown",
     starting_scene_id |-> "entrance",
     scenes |-> [entrance |-> [title |-> "Entrance", description |-> "a gate",
                               connections |-> [Ancient_Library |-> "library"]],
                 library |-> [description |-> "dusty shelves"]]]

\* rejected by _validate_scenario: the starting scene is not among the scenes
ScenarioNoStart ==
    [title |-> "Lost", setting |-> "fog", objective |-> "none",
     starting_scene_id |-> "cave",
     scenes |-> [entrance |-> [title |-> "Entrance", description |-> "a gate"]]]

\* passes _validate_scenario, but the starting scene has no description
ScenarioBareStart ==
    [title |-> "The Pit", setting |-> "a pit", objective |-> "climb out",
     starting_scene_id |-> "entrance",
     scenes |-> [entrance |-> [title |-> "Entrance"]]]

ScenarioOutcomes ==
    {Json(ScenarioGood), Json(ScenarioNoTitle), Json(ScenarioBareStart),
     Json(ScenarioNoStart), Transport, Malformed, NoClient}

\* player setup data
CharacterDataGood ==
    [inventory |-> <<[name |-> "Rope", description |-> "a rope"]>>,
     skills |-> <<[name |-> "Climb", description |-> "climbing", cost |-> "tiring"]>>]

CharacterDataNoSkills == [inventory |-> <<>>]

PlayerOutcomes ==
    {Json(CharacterDataGood), Json(CharacterDataNoSkills), Transport, Malformed, NoClient}

\* scene payloads for a requested id t
SceneGood(t) ==
    [id |-> t, title |-> "Cavern", description |-> "dripping water",
     connections |-> [Way_Out |-> "entrance"], characters |-> <<Hermit>>]

\* title and description only: no id, no connections, no characters
SceneBare == [title |-> "Void", description |-> "nothing here"]

\* the payload names another id than the one asked for
SceneOtherId ==
    [id |-> "vault", title |-> "Vault", description |-> "gold", connections |-> EmptyDict]

\* passes _validate_scene_data, but a character lacks its name
SceneBadCharacter(t) ==
    [id |-> t, title |-> "Den", description |-> "bones",
     characters |-> <<[description |-> "a shape"]>>]

\* rejected by _validate_scene_data
SceneNoTitle(t) == [id |-> t, description |-> "untitled"]

\* the outcomes in which generation of a scene fails (424-439)
SceneFailures(t) == {Json(SceneNoTitle(t)), Transport, Malformed}

SceneOutcomes(t) ==
    {Json(SceneGood(t)), Json(SceneBare), Json(SceneOtherId), Json(SceneBadCharacter(t))}
        \cup SceneFailures(t)

\* action results
Plain == [success |-> TRUE, description |-> "Nothing happens."]

ResultMove(t) == Plain @@ [move_to_scene |-> t]

ResultWoundedMove(t) ==
    Plain @@ [player_updates |-> [health |-> "wounded"], move_to_scene |-> t]

ResultDied == Plain @@ [game_over |-> TRUE, ending_message |-> "You died."]

ResultOverNoMessage == Plain @@ [game_over |-> TRUE]

\* "ending_message": null
ResultOverNullMessage == Plain @@ [game_over |-> TRUE, ending_message |-> Null]

ResultNotOver ==
    Plain @@ [game_over |-> FALSE, ending_message |-> "not yet", move_to_scene |-> Null]

ResultOverMove ==
    Plain @@ [game_over |-> TRUE, ending_message |-> "The End", move_to_scene |-> "cave"]

ResultSceneUpdates ==
    Plain @@ [character_updates |-> << <<"Guard", [attitude |-> "hostile", health |-> "hurt"]>>,
                                      <<"Nobody", [health |-> "dead"]>> >>,
              scene_updates |-> [add_characters |-> <<[name |-> "Rat", description |-> "a rat"]>>,
                                 remove_characters |-> <<"Hermit">>,
                                 new_connections |-> [Trapdoor |-> "crypt"]]]

\* a delta for the character the same result adds to the scene
ResultRatJoins ==
    Plain @@ [character_updates |-> << <<"Rat", [health |-> "hurt"]>> >>,
              scene_updates |-> [add_characters |-> <<[name |-> "Rat", description |-> "a rat"]>>]]

\* deltas for the current scene together with a move
ResultUpdatesMove == ResultSceneUpdates @@ [move_to_scene |-> "cave"]

\* an add_items entry without a name: Character.update raises KeyError
ResultBadItem ==
    Plain @@ [player_updates |-> [health |-> "dizzy",
                                  add_items |-> <<[description |-> "a thing"]>>],
              move_to_scene |-> "library", game_over |-> TRUE, ending_message |-> "Oops"]

\* rejected by _validate_action_result
ResultNoSuccess == [description |-> "Something happens."]

Results ==
    {Plain, ResultDied, ResultOverNoMessage, ResultOverNullMessage, ResultNotOver,
     ResultOverMove, ResultSceneUpdates, ResultRatJoins, ResultUpdatesMove, ResultBadItem}
        \cup {ResultMove(t) : t \in {"entrance", "cave"}}
        \cup {ResultWoundedMove(t) : t \in {"library", "cave"}}

\* the outcomes in which action resolution fails
ActionFailures == {Json(ResultNoSuccess), Transport, Malformed}

ActionOutcomes == {Json(r) : r \in Results} \cup ActionFailures

-----------------------------------------------------------------------------
(* The session: main() of app/main.py with GameEngine and DungeonMaster *)

\* bound on the operations of one session
MaxOps == 6

\* json.loads of a scenario: every scene definition gets its own dict objects
RECURSIVE ParsedScenes(_, _, _)
ParsedScenes(scenes, todo, heap) ==
    IF todo = {} THEN [scenes |-> scenes, dicts |-> heap]
    ELSE LET id == CHOOSE x \in todo : TRUE
         IN ParsedScenes([scenes EXCEPT ![id] = ParsedScene(scenes[id], Len(heap))],
                         todo \ {id}, ParsedSceneDicts(scenes[id], heap))

\* dungeon_master.py 108-111: the validated scenario is stored and returned
StoreScenario(data, parsed, n) ==
    [exc |-> "None", scenario |-> [data EXCEPT !["scenes"] = parsed.scenes],
     dicts |-> parsed.dicts, calls |-> n]

\* variant: a failure clears the stored scenario
CreateScenarioFromReset(scn, heap, r) ==
    IF r.exc # "None"
    THEN [exc |-> "Exception", scenario |-> EmptyDict, dicts |-> heap, calls |-> r.calls]
    ELSE StoreScenario(r.data,
             ParsedScenes(r.data["scenes"], DOMAIN r.data["scenes"], heap), r.calls)

\* create_scenario with the generator's outcome r: every failure is raised
\* to the caller as Exception
CreateScenarioFrom(scn, heap, r) ==
    IF r.exc # "None"
    THEN [exc |-> "Exception", scenario |-> scn, dicts |-> heap, calls |-> r.calls]
    ELSE StoreScenario(r.data,
             ParsedScenes(r.data["scenes"], DOMAIN r.data["scenes"], heap), r.calls)

CreateScenario(scn, heap, outcome) ==
    CreateScenarioFrom(scn, heap, CallLLM(outcome, "_validate_scenario"))

\* variant: a failed generation yields a player with nothing instead of an error
SetupPlayerFromDefault(name, profile, r) ==
    IF r.exc # "None"
    THEN [exc |-> "None", calls |-> r.calls, player |-> Player(name, profile, <<>>, <<>>)]
    ELSE [exc |-> "None", calls |-> r.calls,
          player |-> Player(name, profile,
              [i \in 1..Len(r.data["inventory"]) |-> Item(r.data["inventory"][i])],
              [i \in 1..Len(r.data["skills"]) |-> Skill(r.data["skills"][i])])]

\* setup_player(name, profile) with the generator's outcome r
SetupPlayerFrom(name, profile, r) ==
    IF r.exc # "None"
    THEN [exc |-> "Exception", player |-> NoneV, calls |-> r.calls]
    ELSE [exc |-> "None", calls |-> r.calls,
          player |-> Player(name, profile,
              [i \in 1..Len(r.data["inventory"]) |-> Item(r.data["inventory"][i])],
              [i \in 1..Len(r.data["skills"]) |-> Skill(r.data["skills"][i])])]

SetupPlayerCall(name, profile, outcome) ==
    SetupPlayerFrom(name, profile, CallLLM(outcome, "_validate_character_data"))

\* the id, characters and connections of a Scene object, by value
Snapshot(objs, heap, ref) ==
    [id |-> objs[ref].id, characters |-> objs[ref].characters,
     connections |-> heap[objs[ref].connections]]

\* the first Scene create_scene returned for each target id
Remember(fr, target, cs) ==
    IF target # NoId /\ cs.exc = "None" /\ target \notin DOMAIN fr
    THEN Put(fr, target, Snapshot(cs.sceneObjs, cs.dicts, cs.scene)
                             @@ [fallback |-> cs.fallback])
    ELSE fr

\* the fields an operation starts from
Pre == [player |-> player, current_scene |-> current_scene,
        scene_history |-> scene_history, is_game_over |-> is_game_over,
        ending_message |-> ending_message, scenario |-> scenario,
        scene_memory |-> scene_memory, dicts |-> dicts, sceneObjs |-> sceneObjs]

NoArg == [none |-> TRUE]

\* what an operation reports of its create_scene call: whether it made one,
\* the exception that escaped it, its generator calls, the Scene returned
\* and whether that Scene is the placeholder of 424-456
NoRet == [called |-> FALSE, exc |-> "None", calls |-> 0, scene |-> 0, fallback |-> FALSE]

SceneRet(cs) ==
    [called |-> TRUE, exc |-> cs.exc, calls |-> cs.calls, scene |-> cs.scene,
     fallback |-> cs.fallback]

Init ==
    /\ scenario = EmptyDict
    /\ scene_memory = EmptyDict
    /\ dicts = <<>>
    /\ sceneObjs = <<>>
    /\ player = NoneV
    /\ current_scene = 0
    /\ scene_history = <<>>
    /\ is_game_over = FALSE
    /\ ending_message = ""
    /\ pc = "new"
    /\ ops = 0
    /\ op = "init"
    /\ calls = 0
    /\ raised = "None"
    /\ arg = NoArg
    /\ ret = NoRet
    /\ pre = NoArg
    /\ first_ret = EmptyDict

\* main 153: engine.setup_game(); a failure ends main() in its outer handler
SetupGameEffect(outcome, r) ==
    /\ scenario' = r.scenario
    /\ dicts' = r.dicts
    /\ pc' = IF r.exc = "None" THEN "scenario" ELSE "crashed"
    /\ calls' = r.calls
    /\ raised' = r.exc
    /\ arg' = [gen |-> outcome]

SetupGame ==
    /\ pc = "new"
    /\ \E outcome \in ScenarioOutcomes :
        SetupGameEffect(outcome, CreateScenario(scenario, dicts, outcome))
    /\ op' = "create_scenario"
    /\ ops' = ops + 1
    /\ ret' = NoRet
    /\ pre' = Pre
    /\ UNCHANGED <<scene_memory, sceneObjs, player, current_scene, scene_history,
                   is_game_over, ending_message, first_ret>>

\* main 166-171: dm.setup_player(name, profile)
SetupPlayerEffect(outcome, r) ==
    /\ player' = IF r.exc = "None" THEN r.player ELSE player
    /\ pc' = IF r.exc = "None" THEN "player" ELSE "crashed"
    /\ calls' = r.calls
    /\ raised' = r.exc
    /\ arg' = [gen |-> outcome]

SetupPlayer ==
    /\ pc = "scenario"
    /\ \E outcome \in PlayerOutcomes :
        SetupPlayerEffect(outcome, SetupPlayerCall("Ada", "a climber", outcome))
    /\ op' = "setup_player"
    /\ ops' = ops + 1
    /\ ret' = NoRet
    /\ pre' = Pre
    /\ UNCHANGED <<scenario, scene_memory, dicts, sceneObjs, current_scene,
                   scene_history, is_game_over, ending_message, first_ret>>

\* main 194-195: the first scene
StartEffect(cs) ==
    /\ scene_memory' = cs.scene_memory
    /\ dicts' = cs.dicts
    /\ sceneObjs' = cs.sceneObjs
    /\ current_scene' = IF cs.exc = "None" THEN cs.scene ELSE current_scene
    /\ pc' = IF cs.exc = "None" THEN "loop" ELSE "crashed"
    /\ calls' = cs.calls
    /\ raised' = cs.exc
    /\ ret' = SceneRet(cs)

Start ==
    /\ pc = "player"
    /\ StartEffect(CreateScene(scenario, scene_memory, dicts, sceneObjs, current_scene,
                               NoId, Transport))
    /\ op' = "start"
    /\ ops' = ops + 1
    /\ arg' = [target |-> NoId, gen |-> NoArg]
    /\ pre' = Pre
    /\ UNCHANGED <<scenario, player, scene_history, is_game_over, ending_message, first_ret>>

\* the move of a turn takes place: update returned and named a target
Moving(result, upd) == upd.exc = "None" /\ MoveTarget(result) # NoId

\* create_scene will have to call the generator for this target
Generating(target) ==
    /\ target # NoId
    /\ target \notin DOMAIN Get(scenario, "scenes", EmptyDict)
    /\ target \notin DOMAIN scene_memory

\* main 260-269: the state a pass of the loop leaves, from the result of
\* resolve_action, what update made of the state, and what create_scene
\* returned (cs, read only when the move takes place)
TurnEffect(outcome, ra, upd, gen, cs) ==
    /\ player' = upd.gs.player
    /\ scene_history' = upd.gs.scene_history
    /\ is_game_over' = upd.gs.is_game_over
    /\ ending_message' = upd.gs.ending_message
    /\ scene_memory' = IF Moving(ra.result, upd) THEN cs.scene_memory ELSE scene_memory
    /\ dicts' = IF Moving(ra.result, upd) THEN cs.dicts ELSE upd.gs.dicts
    /\ sceneObjs' = IF Moving(ra.result, upd) THEN cs.sceneObjs ELSE upd.gs.sceneObjs
    /\ current_scene' = IF Moving(ra.result, upd) /\ cs.exc = "None" THEN cs.scene
                        ELSE upd.gs.current_scene
    /\ pc' = IF upd.gs.is_game_over THEN "over" ELSE "loop"
    /\ calls' = ra.calls + (IF Moving(ra.result, upd) THEN cs.calls ELSE 0)
    /\ raised' = IF upd.exc # "None" THEN upd.exc
                 ELSE IF Moving(ra.result, upd) THEN cs.exc ELSE "None"
    /\ arg' = [action |-> outcome, action_exc |-> ra.exc, action_calls |-> ra.calls,
               result |-> ra.result, update_exc |-> upd.exc, target |-> MoveTarget(ra.result), gen |-> gen]
    /\ ret' = IF Moving(ra.result, upd) THEN SceneRet(cs) ELSE NoRet
    /\ first_ret' = IF Moving(ra.result, upd)
                    THEN Remember(first_ret, MoveTarget(ra.result), cs) ELSE first_ret

\* variant: the scene is resolved on the state the turn started from, and
\* what the resolution returns replaces what update wrote
TurnMoveStale(outcome, ra, upd) ==
    IF Moving(ra.result, upd) /\ Generating(MoveTarget(ra.result))
    THEN \E gen \in SceneOutcomes(MoveTarget(ra.result)) :
            TurnEffect(outcome, ra, upd, gen,
                CreateScene(scenario, scene_memory, dicts, sceneObjs,
                            current_scene, MoveTarget(ra.result), gen))
    ELSE TurnEffect(outcome, ra, upd, NoArg,
            CreateScene(scenario, scene_memory, dicts, sceneObjs,
                        current_scene, MoveTarget(ra.result), Transport))

\* main 262-265: create_scene for the target, with the generator's outcome
\* when the scene has to be generated
TurnMove(outcome, ra, upd) ==
    IF Moving(ra.result, upd) /\ Generating(MoveTarget(ra.result))
    THEN \E gen \in SceneOutcomes(MoveTarget(ra.result)) :
            TurnEffect(outcome, ra, upd, gen,
                CreateScene(scenario, scene_memory, upd.gs.dicts, upd.gs.sceneObjs,
                            upd.gs.current_scene, MoveTarget(ra.result), gen))
    ELSE TurnEffect(outcome, ra, upd, NoArg,
            CreateScene(scenario, scene_memory, upd.gs.dicts, upd.gs.sceneObjs,
                        upd.gs.current_scene, MoveTarget(ra.result), Transport))

\* main 250-260: resolve_action, then GameState.update on its result
TurnUpdate(outcome, ra) ==
    TurnMove(outcome, ra,
        GameStateUpdate(GS(player, dicts, sceneObjs, current_scene, scene_history,
                           is_game_over, ending_message), ra.result))

\* main 198-269: one pass of the loop on a regular action. resolve_action,
\* GameState.update, then create_scene for the target and the assignment of
\* its Scene; an exception of update or create_scene is caught and reported.
Turn ==
    /\ pc = "loop"
    /\ ~is_game_over
    /\ ops < MaxOps
    /\ \E outcome \in ActionOutcomes : TurnUpdate(outcome, ResolveAction(outcome))
    /\ op' = "turn"
    /\ ops' = ops + 1
    /\ pre' = Pre
    /\ UNCHANGED scenario

Next == SetupGame \/ SetupPlayer \/ Start \/ Turn

Spec == Init /\ [][Next]_vars

-----------------------------------------------------------------------------
(* The components called directly, in any order, the way a client other than
   main() may call them: DungeonMaster.create_scenario, setup_player and
   create_scene, GameState.update. The Scene create_scene returns becomes the
   current scene, as in GameEngine.start_gameplay. *)

\* bound on the calls of one such session
MaxCalls == 2

\* engine.py 19-28: dm.create_scenario(); a failure leaves the caller with nothing
CallCreateScenarioEffect(outcome, r) ==
    /\ scenario' = r.scenario
    /\ dicts' = r.dicts
    /\ calls' = r.calls
    /\ raised' = r.exc
    /\ arg' = [gen |-> outcome]

CallCreateScenario ==
    /\ ops < MaxCalls
    /\ \E outcome \in ScenarioOutcomes :
        CallCreateScenarioEffect(outcome, CreateScenario(scenario, dicts, outcome))
    /\ op' = "create_scenario"
    /\ ops' = ops + 1
    /\ ret' = NoRet
    /\ pre' = Pre
    /\ UNCHANGED <<scene_memory, sceneObjs, player, current_scene, scene_history,
                   is_game_over, ending_message, first_ret, pc>>

\* engine.py 30-37: state.player = dm.setup_player(name, profile)
CallSetupPlayerEffect(outcome, r) ==
    /\ player' = IF r.exc = "None" THEN r.player ELSE player
    /\ calls' = r.calls
    /\ raised' = r.exc
    /\ arg' = [gen |-> outcome]

CallSetupPlayer ==
    /\ ops < MaxCalls
    /\ \E outcome \in PlayerOutcomes :
        CallSetupPlayerEffect(outcome, SetupPlayerCall("Ada", "a climber", outcome))
    /\ op' = "setup_player"
    /\ ops' = ops + 1
    /\ ret' = NoRet
    /\ pre' = Pre
    /\ UNCHANGED <<scenario, scene_memory, dicts, sceneObjs, current_scene,
                   scene_history, is_game_over, ending_message, first_ret, pc>>

\* engine.py 91-92: state.current_scene = dm.create_scene(state, target)
CallCreateSceneEffect(target, gen, cs) ==
    /\ scene_memory' = cs.scene_memory
    /\ dicts' = cs.dicts
    /\ sceneObjs' = cs.sceneObjs
    /\ current_scene' = IF cs.exc = "None" THEN cs.scene ELSE current_scene
    /\ calls' = cs.calls
    /\ raised' = cs.exc
    /\ arg' = [target |-> target, gen |-> gen]
    /\ ret' = SceneRet(cs)
    /\ first_ret' = Remember(first_ret, target, cs)

CallCreateScene ==
    /\ ops < MaxCalls
    /\ \E target \in Ids \cup {NoId} :
        IF Generating(target)
        THEN \E gen \in SceneOutcomes(target) :
                CallCreateSceneEffect(target, gen,
                    CreateScene(scenario, scene_memory, dicts, sceneObjs, current_scene,
                                target, gen))
        ELSE CallCreateSceneEffect(target, NoArg,
                CreateScene(scenario, scene_memory, dicts, sceneObjs, current_scene,
                            target, Transport))
    /\ op' = "create_scene"
    /\ ops' = ops + 1
    /\ pre' = Pre
    /\ UNCHANGED <<scenario, player, scene_history, is_game_over, ending_message, pc>>

\* engine.py 88: state.update(result)
CallUpdateEffect(result, upd) ==
    /\ player' = upd.gs.player
    /\ dicts' = upd.gs.dicts
    /\ sceneObjs' = upd.gs.sceneObjs
    /\ scene_history' = upd.gs.scene_history
    /\ is_game_over' = upd.gs.is_game_over
    /\ ending_message' = upd.gs.ending_message
    /\ raised' = upd.exc
    /\ arg' = [result |-> result, update_exc |-> upd.exc, target |-> MoveTarget(result)]

CallUpdate ==
    /\ ops < MaxCalls
    /\ \E result \in Results :
        CallUpdateEffect(result,
            GameStateUpdate(GS(player, dicts, sceneObjs, current_scene, scene_history,
                               is_game_over, ending_message), result))
    /\ op' = "update"
    /\ ops' = ops + 1
    /\ calls' = 0
    /\ ret' = NoRet
    /\ pre' = Pre
    /\ UNCHANGED <<scenario, scene_memory, current_scene, first_ret, pc>>

NextCalls == CallCreateScenario \/ CallSetupPlayer \/ CallCreateScene \/ CallUpdate

SpecCalls == Init /\ [][NextCalls]_vars

-----------------------------------------------------------------------------
(* Properties *)

\* the operation made a create_scene call
SceneCalled == op \in {"start", "turn", "create_scene"} /\ ret.called

\* that call returned a Scene
SceneReturned == SceneCalled /\ ret.exc = "None"

\* the ids predefined in the scenario
Predefined == DOMAIN Get(scenario, "scenes", EmptyDict)

\* the connections of a Scene object, by value
Connections(ref) == dicts[sceneObjs[ref].connections]

\* the create_scene call had to generate and the generation failed
GenerationFailed == SceneCalled /\ arg.gen \in SceneFailures(arg.target)

\* C1: resolving an id that is a key of the scenario's scene map makes no
\* generator call and returns a Scene with that id.
C1_PredefinedResolves ==
    (SceneCalled /\ arg.target \in Predefined)
        => /\ ret.calls = 0
           /\ ret.exc = "None"
           /\ sceneObjs[ret.scene].id = arg.target

\* C2: two resolutions of the same id that is not predefined return the same
\* characters and connections, whatever is applied in between. Stated for
\* the ids whose first resolution was built from the generator's payload.
C2_SameSceneTwice ==
    (/\ SceneReturned
     /\ arg.target \in DOMAIN first_ret
     /\ arg.target \notin Predefined
     /\ ~first_ret[arg.target].fallback)
        => /\ sceneObjs[ret.scene].characters = first_ret[arg.target].characters
           /\ Connections(ret.scene) = first_ret[arg.target].connections

\* C3: every Scene create_scene returns for a target id t has id t.
C3_ReturnedIdIsTarget ==
    (SceneReturned /\ arg.target # NoId) => sceneObjs[ret.scene].id = arg.target

\* C4: when the generation of a scene fails, create_scene returns a Scene
\* with at least one connection, which targets the current scene's id when
\* a current scene exists.
C4_FailureHasWayBack ==
    GenerationFailed
        => /\ ret.exc = "None"
           /\ DOMAIN Connections(ret.scene) # {}
           /\ pre.current_scene # 0
                => \E k \in DOMAIN Connections(ret.scene) :
                      Connections(ret.scene)[k] = sceneObjs[pre.current_scene].id

\* C5: the placeholder scene has no characters and exactly one connection,
\* named "back-reference", to the previous scene's id.
C5_PlaceholderBackReference ==
    (SceneReturned /\ ret.fallback)
        => /\ sceneObjs[ret.scene].characters = <<>>
           /\ DOMAIN Connections(ret.scene) = {"back-reference"}
           /\ Connections(ret.scene)["back-reference"] = sceneObjs[pre.current_scene].id

\* C6: when the generator call of resolve_action fails, resolve_action
\* raises nothing and returns a result with success false and a non-empty
\* description.
C6_ActionFailureResult ==
    (op = "turn" /\ arg.action \in ActionFailures)
        => /\ arg.action_exc = "None"
           /\ arg.result["success"] = FALSE
           /\ arg.result["description"] # ""

C6_Witness == op = "turn" /\ arg.action = Transport /\ arg.result["success"] = FALSE

\* C7: create_scene with a target returns a Scene and raises nothing, on
\* the first and on every later resolution of the id.
C7_SceneEntryNeverRaises ==
    (SceneCalled /\ arg.target # NoId) => ret.exc = "None"

\* C8: a turn whose result carries a player delta and a move to t, applied
\* in scene s, ends with the delta applied, s the last entry of the history
\* and the current scene's id equal to t.
C8_DeltaThenMove ==
    (/\ op = "turn"
     /\ "player_updates" \in DOMAIN arg.result
     /\ arg.target # NoId
     /\ pre.current_scene # 0)
        => /\ "health" \in DOMAIN arg.result["player_updates"]
                => player.health = arg.result["player_updates"]["health"]
           /\ scene_history # <<>>
           /\ scene_history[Len(scene_history)] = pre.current_scene
           /\ sceneObjs[current_scene].id = arg.target

\* a result with game_over true and an ending message has been handed to update
GameOverResult ==
    /\ op \in {"turn", "update"}
    /\ "game_over" \in DOMAIN arg.result
    /\ arg.result["game_over"] = TRUE
    /\ "ending_message" \in DOMAIN arg.result

\* C9: a result with game_over true and ending message m that update has
\* applied (update returned) sets is_game_over and stores exactly m, and m
\* stays the stored message in every later state.
C9_EndingMessageStored ==
    /\ []((GameOverResult /\ arg.update_exc = "None")
            => (is_game_over /\ ending_message = arg.result["ending_message"]))
    /\ [][is_game_over => ending_message' = ending_message]_vars

\* C10: once is_game_over is true it stays true, whatever results are
\* applied afterwards.
C10_EndedIsTerminal == [][is_game_over => is_game_over']_vars

C10_Witness ==
    /\ op = "update"
    /\ pre.is_game_over
    /\ "game_over" \in DOMAIN arg.result
    /\ arg.result["game_over"] = FALSE
    /\ arg.update_exc = "None"
    /\ is_game_over

\* a result with game_over true that supplies no ending message: the key is
\* absent or its value is null
NoEndingMessage(result) ==
    /\ "game_over" \in DOMAIN result
    /\ result["game_over"] = TRUE
    /\ ("ending_message" \notin DOMAIN result \/ result["ending_message"] = Null)

\* C11: after update has applied a result with game_over true and no ending
\* message (key absent or value null), the stored ending message is "Game Over".
C11_DefaultEndingMessage ==
    (op \in {"turn", "update"} /\ arg.update_exc = "None" /\ NoEndingMessage(arg.result))
        => ending_message = "Game Over"

-----------------------------------------------------------------------------
(* Character.update called directly on a character, with deltas of any
   shape: app/character/base.py *)

\* bounds: the items of an initial inventory, the updates applied in a row
MaxInv == 3
MaxUpdates == 2

IronKey == Item([name |-> "Key", description |-> "an iron key"])
BrassKey == Item([name |-> "Key", description |-> "a brass key"])
Rope == Item([name |-> "Rope", description |-> "a rope"])

Inventories == UNION {[1..n -> {IronKey, BrassKey, Rope}] : n \in 0..MaxInv}

Statuses ==
    {EmptyDict, [poisoned |-> "mild"], [poisoned |-> "mild", blessed |-> "strong"]}

Characters ==
    {[Player("Ada", "a climber", inv, <<>>) EXCEPT !.status = st] :
        inv \in Inventories, st \in Statuses}

\* the object is an NPC: it has the fields class NPC adds
IsNPC(c) == "attitude" \in DOMAIN c

\* NPCs with none, one or two properties
NPCs ==
    {[NPC("Guard", "a tired guard", "neutral", inv, <<>>)
         EXCEPT !.status = st, !.properties = pr] :
        inv \in {<<>>, <<IronKey>>, <<Rope, BrassKey>>},
        st \in Statuses,
        pr \in {EmptyDict, [mood |-> "calm"], [mood |-> "calm", rank |-> "sergeant"]}}

\* deltas as action resolution may produce them for player_updates and for
\* the entries of character_updates
Deltas ==
    {EmptyDict,
     [status |-> [poisoned |-> Null]],
     [status |-> [poisoned |-> "severe"]],
     [status |-> [blessed |-> Null, cursed |-> "deep"]],
     [status |-> [cursed |-> Null]],
     [health |-> "wounded", status |-> [poisoned |-> Null], remove_items |-> <<"Rope">>],
     [remove_items |-> <<"Key">>],
     [remove_items |-> <<"Rope">>],
     [remove_items |-> <<"Rope", "Key">>],
     [remove_items |-> <<"Lamp">>],
     [add_items |-> <<[name |-> "Key", description |-> "a bone key"]>>,
      remove_items |-> <<"Key">>],
     [add_items |-> <<[name |-> "Rope", description |-> "a rope"],
                      [name |-> "Key", description |-> "an iron key"]>>],
     [add_items |-> <<[description |-> "nameless"]>>, remove_items |-> <<"Key">>],
     [luck |-> "high"],
     [attitude |-> "hostile", properties |-> [mood |-> "angry"]],
     [energy |-> "tired", properties |-> [mood |-> Null, rank |-> "captain"]]}

InitCharacter ==
    /\ scenario = EmptyDict
    /\ scene_memory = EmptyDict
    /\ dicts = <<>>
    /\ sceneObjs = <<>>
    /\ player \in Characters \cup NPCs
    /\ current_scene = 0
    /\ scene_history = <<>>
    /\ is_game_over = FALSE
    /\ ending_message = ""
    /\ pc = "new"
    /\ ops = 0
    /\ op = "init"
    /\ calls = 0
    /\ raised = "None"
    /\ arg = NoArg
    /\ ret = NoRet
    /\ pre = NoArg
    /\ first_ret = EmptyDict

\* character.update(updates): the character as the call leaves it
CallCharacterUpdateEffect(updates, r) ==
    /\ player' = r.c
    /\ raised' = r.exc
    /\ arg' = [updates |-> updates]

CallCharacterUpdate ==
    /\ ops < MaxUpdates
    /\ ~IsNPC(player)
    /\ \E updates \in Deltas :
        CallCharacterUpdateEffect(updates, CharacterUpdate(player, updates))
    /\ op' = "character_update"
    /\ ops' = ops + 1
    /\ pre' = [character |-> player]
    /\ UNCHANGED <<scenario, scene_memory, dicts, sceneObjs, current_scene, scene_history,
                   is_game_over, ending_message, pc, calls, ret, first_ret>>

\* the same call on an NPC runs NPC.update
CallNPCUpdate ==
    /\ ops < MaxUpdates
    /\ IsNPC(player)
    /\ \E updates \in Deltas :
        CallCharacterUpdateEffect(updates, NPCUpdate(player, updates))
    /\ op' = "npc_update"
    /\ ops' = ops + 1
    /\ pre' = [character |-> player]
    /\ UNCHANGED <<scenario, scene_memory, dicts, sceneObjs, current_scene, scene_history,
                   is_game_over, ending_message, pc, calls, ret, first_ret>>

NextCharacter == CallCharacterUpdate \/ CallNPCUpdate

SpecCharacter == InitCharacter /\ [][NextCharacter]_vars

\* C12: when the character has status key X and the delta's status maps X to
\* null, the status after Character.update has no key X; every status key the
\* delta does not name keeps its value.
C12_NullRemovesStatusKey ==
    (op = "character_update" /\ "status" \in DOMAIN arg.updates)
        => /\ \A X \in (DOMAIN pre.character.status) \cap (DOMAIN arg.updates["status"]) :
                arg.updates["status"][X] = Null => X \notin DOMAIN player.status
           /\ \A Y \in (DOMAIN pre.character.status) \ (DOMAIN arg.updates["status"]) :
                Y \in DOMAIN player.status /\ player.status[Y] = pre.character.status[Y]

C12_Witness ==
    /\ op = "character_update"
    /\ arg.updates = [status |-> [poisoned |-> Null]]
    /\ DOMAIN pre.character.status = {"poisoned", "blessed"}
    /\ DOMAIN player.status = {"blessed"}

\* the names listed in remove_items
Removed(updates) == {updates["remove_items"][i] : i \in 1..Len(updates["remove_items"])}

\* the items of an inventory whose name is not among names, in their order
Others(inventory, names) ==
    LET Keep(item) == item.name \notin names
    IN SelectSeq(inventory, Keep)

\* C13: after a Character.update with remove_items has returned, no item
\* named in remove_items is in the inventory, and the items of the previous
\* inventory with other names are there in their original relative order.
C13_RemoveAllByName ==
    (op = "character_update" /\ raised = "None" /\ "remove_items" \in DOMAIN arg.updates)
        => /\ \A i \in 1..Len(player.inventory) :
                player.inventory[i].name \notin Removed(arg.updates)
           /\ Len(Others(pre.character.inventory, Removed(arg.updates)))
                <= Len(player.inventory)
           /\ SubSeq(player.inventory, 1,
                     Len(Others(pre.character.inventory, Removed(arg.updates))))
                = Others(pre.character.inventory, Removed(arg.updates))

C13_Witness ==
    /\ op = "character_update"
    /\ raised = "None"
    /\ arg.updates = [remove_items |-> <<"Rope">>]
    /\ pre.character.inventory = <<Rope, BrassKey, Rope, IronKey>>
    /\ player.inventory = <<BrassKey, IronKey>>

\* C14: every request that reaches the generator makes exactly one generator
\* call, whether it succeeds or fails: scenario creation, player setup,
\* action resolution, and the resolution of a scene id that has to be generated.
C14_OneGeneratorCall ==
    /\ (op \in {"create_scenario", "setup_player"} /\ arg.gen # NoClient) => calls = 1
    /\ op = "turn" => arg.action_calls = 1
    /\ (SceneCalled /\ arg.gen # NoArg) => ret.calls = 1

C14_Witness ==
    /\ op = "turn"
    /\ arg.action_exc = "None"
    /\ arg.gen = Malformed
    /\ ret.fallback
    /\ ret.calls = 1
    /\ calls = 2

\* the create_scene call had to generate and the generator's payload passed
\* _validate_scene_data
GeneratedValid ==
    /\ SceneCalled
    /\ "kind" \in DOMAIN arg.gen
    /\ arg.gen.kind = "json"
    /\ ValidateSceneData(arg.gen.data) = "None"

\* the create_scene call was for an id scene memory already held
Remembered == SceneCalled /\ arg.target # NoId /\ arg.target \in DOMAIN pre.scene_memory

\* C15: after a resolution of a non-predefined id t whose payload passed
\* validation, scene memory has an entry for t, the entry stays, and every
\* resolution of an id that scene memory holds makes no generator call.
C15_RememberedNeedsNoCall ==
    /\ [](GeneratedValid => arg.target \in DOMAIN scene_memory)
    /\ [](Remembered => ret.calls = 0)
    /\ [][DOMAIN scene_memory \subseteq DOMAIN scene_memory']_vars

C15_Witness ==
    /\ Remembered
    /\ arg.target \notin Predefined
    /\ ret.exc = "None"
    /\ ret.calls = 0

\* a scene definition (an entry of scene memory or of the scenario's scene
\* map) by value: its connections dict read from the heap
DefinitionValue(definition, heap) ==
    IF "connections" \in DOMAIN definition
    THEN [definition EXCEPT !["connections"] = heap[definition["connections"]]]
    ELSE definition

\* C16: once scene memory has an entry for an id, no operation removes the
\* entry or changes its content.
C16_MemoryWriteOnce ==
    [][\A t \in DOMAIN scene_memory :
          /\ t \in DOMAIN scene_memory'
          /\ DefinitionValue(scene_memory'[t], dicts') = DefinitionValue(scene_memory[t], dicts)]_vars

\* the scenario's scene map
Scenes(scn) == Get(scn, "scenes", EmptyDict)

\* C17: no operation after its creation changes a predefined scene
\* definition of the scenario, scene deltas applied through
\* GameState.update included.
C17_ScenarioNotAliased ==
    [][\A id \in DOMAIN Scenes(scenario) :
          /\ id \in DOMAIN Scenes(scenario')
          /\ DefinitionValue(Scenes(scenario')[id], dicts')
                = DefinitionValue(Scenes(scenario)[id], dicts)]_vars

\* the names of a character list are pairwise distinct
DistinctNames(characters) ==
    \A i, j \in 1..Len(characters) : i # j => characters[i].name # characters[j].name

\* C18: in every state the character names of every scene are pairwise
\* distinct.
C18_UniqueCharacterNames ==
    \A ref \in 1..Len(sceneObjs) : DistinctNames(sceneObjs[ref].characters)

\* the generator call of a request fails: no client, transport error,
\* unparseable response, or a payload the request's validator rejects
GatewayFails(outcome, validator) ==
    \/ outcome.kind \in {"no_client", "transport", "malformed"}
    \/ outcome.kind = "json" /\ Validate(validator, outcome.data) # "None"

\* C19: when its generator call fails, create_scenario raises and stores no
\* scenario, and setup_player raises and yields no player.
C19_SetupFailuresPropagate ==
    /\ (op = "create_scenario" /\ GatewayFails(arg.gen, "_validate_scenario"))
        => (raised # "None" /\ scenario = pre.scenario)
    /\ (op = "setup_player" /\ GatewayFails(arg.gen, "_validate_character_data"))
        => (raised # "None" /\ player = pre.player)

C19_Witness ==
    /\ op = "setup_player"
    /\ arg.gen = Json(CharacterDataNoSkills)
    /\ raised = "Exception"
    /\ player = NoneV
    /\ scenario # EmptyDict

-----------------------------------------------------------------------------
(* call_llm_with_json_response called directly, with each validator and
   every behaviour of the client: app/utils/llm_utils.py *)

Validators ==
    {"_validate_scenario", "_validate_character_data", "_validate_scene_data",
     "_validate_action_result"}

GatewayOutcomes ==
    ScenarioOutcomes \cup PlayerOutcomes \cup ActionOutcomes
        \cup UNION {SceneOutcomes(t) : t \in Ids}

CallGatewayEffect(outcome, validator, r) ==
    /\ ret' = r
    /\ raised' = r.exc
    /\ calls' = r.calls
    /\ arg' = [gen |-> outcome, validator |-> validator]

CallGateway ==
    /\ \E outcome \in GatewayOutcomes, validator \in Validators :
        CallGatewayEffect(outcome, validator, CallLLM(outcome, validator))
    /\ op' = "call_llm"
    /\ UNCHANGED <<scenario, scene_memory, dicts, sceneObjs, player, current_scene,
                   scene_history, is_game_over, ending_message, pc, ops, pre, first_ret>>

NextGateway == CallGateway

SpecGateway == Init /\ [][NextGateway]_vars

\* C20: every failure inside call_llm_with_json_response (missing client,
\* transport error, unparseable response, validator rejection) reaches the
\* caller as LLMResponseError with a message; no other error type leaves it.
C20_UniformGatewayError ==
    op = "call_llm"
        => /\ ret.exc \in {"None", "LLMResponseError"}
           /\ GatewayFails(arg.gen, arg.validator)
                => (ret.exc = "LLMResponseError" /\ ret.msg # "")

C20_Witness ==
    /\ op = "call_llm"
    /\ arg.gen = Json(SceneNoTitle("cave"))
    /\ arg.validator = "_validate_scene_data"
    /\ ret.exc = "LLMResponseError"

-----------------------------------------------------------------------------
(* The stored scenario and the first scene *)

\* C21: a stored scenario that is not empty has title, scenes and
\* starting_scene_id, and its starting_scene_id is a key of its scenes,
\* whatever create_scenario calls succeeded or failed before.
C21_StoredScenarioValid ==
    scenario # EmptyDict
        => /\ {"title", "scenes", "starting_scene_id"} \subseteq DOMAIN scenario
           /\ scenario["starting_scene_id"] \in DOMAIN scenario["scenes"]

\* a create_scenario call whose payload was rejected by the validator, made
\* when a scenario was already stored
C21_Witness ==
    /\ op = "create_scenario"
    /\ arg.gen = Json(ScenarioNoStart)
    /\ raised = "Exception"
    /\ pre.scenario # EmptyDict
    /\ scenario = pre.scenario

\* create_scene was called without a target id
NoTarget == SceneCalled /\ arg.target = NoId

\* C22: create_scene without a target id, on a game state without a current
\* scene, makes no generator call and returns the Scene built from the
\* scenario's definition of starting_scene_id, with that id.
C22_FirstSceneIsStartingScene ==
    (NoTarget /\ pre.current_scene = 0)
        => /\ ret.exc = "None"
           /\ ret.calls = 0
           /\ sceneObjs[ret.scene].id = scenario["starting_scene_id"]
           /\ sceneObjs[ret.scene].title
                  = scenario["scenes"][scenario["starting_scene_id"]]["title"]
           /\ sceneObjs[ret.scene].description
                  = scenario["scenes"][scenario["starting_scene_id"]]["description"]

\* C23: create_scene without a target id, on a game state with a current
\* scene, returns that scene and reads only: no generator call, and the game
\* state, the scene history, the scenario and the scene memory are as before.
C23_NoTargetIsPureRead ==
    (NoTarget /\ pre.current_scene # 0)
        => /\ ret.exc = "None"
           /\ ret.calls = 0
           /\ ret.scene = pre.current_scene
           /\ Pre = pre

\* such a call, made when the memory holds a generated scene
C23_Witness ==
    /\ NoTarget
    /\ pre.current_scene # 0
    /\ ret.scene = pre.current_scene
    /\ scene_memory # EmptyDict

-----------------------------------------------------------------------------
(* GameState.update, step by step *)

\* the game state GameState.update started from
PreGS ==
    GS(pre.player, pre.dicts, pre.sceneObjs, pre.current_scene, pre.scene_history,
       pre.is_game_over, pre.ending_message)

\* the characters of the scene that was current when the update started
PreCharacters == pre.sceneObjs[pre.current_scene].characters

\* the names character_updates names
Named(result) ==
    {result["character_updates"][i][1] : i \in 1..Len(result["character_updates"])}

\* the result without the character_updates entries for names not in the scene
WithoutAbsent(result) ==
    LET Here(e) == \E i \in 1..Len(PreCharacters) : PreCharacters[i].name = e[1]
    IN [result EXCEPT !["character_updates"] = SelectSeq(@, Here)]

\* the game state left by a turn is the one that update(result) leaves; the
\* scene resolution of the turn only adds objects
TurnLeaves(u) ==
    /\ arg.update_exc = u.exc
    /\ player = u.gs.player
    /\ scene_history = u.gs.scene_history
    /\ is_game_over = u.gs.is_game_over
    /\ ending_message = u.gs.ending_message
    /\ SubSeq(sceneObjs, 1, Len(pre.sceneObjs)) = u.gs.sceneObjs
    /\ SubSeq(dicts, 1, Len(pre.dicts)) = u.gs.dicts

\* C24: a character_updates entry for a name that is not in the current scene
\* raises nothing and changes nothing: the turn leaves what the same result
\* without such entries leaves, so the other steps are applied as well, and
\* step 2 leaves every character it does not name as it was.
C24_AbsentCharacterIgnored ==
    (op = "turn" /\ pre.current_scene # 0 /\ "character_updates" \in DOMAIN arg.result)
        => /\ TurnLeaves(GameStateUpdate(PreGS, WithoutAbsent(arg.result)))
           /\ \A i \in 1..Len(PreCharacters) :
                  PreCharacters[i].name \notin Named(arg.result)
                      => UpdateNPCs(UpdatePlayer(PreGS, arg.result), arg.result)
                             .gs.sceneObjs[pre.current_scene].characters[i]
                         = PreCharacters[i]

\* a result naming the Guard and Nobody, applied in a scene that holds
\* neither of them but the Hermit: the update returns and the scene deltas of
\* the same result are applied
C24_Witness ==
    /\ op = "turn"
    /\ pre.current_scene # 0
    /\ arg.result = ResultSceneUpdates
    /\ arg.update_exc = "None"
    /\ \E i \in 1..Len(PreCharacters) : PreCharacters[i].name = "Hermit"
    /\ "Trapdoor" \in DOMAIN dicts[sceneObjs[pre.current_scene].connections]
    /\ \E i \in 1..Len(sceneObjs[pre.current_scene].characters) :
           sceneObjs[pre.current_scene].characters[i].name = "Rat"

\* the state steps 2 and 3 of update leave when applied to the state the
\* turn started from
SceneDeltas ==
    UpdateScene(UpdateNPCs(Step(PreGS, "None"), arg.result), arg.result).gs

\* C25: when the result of a turn carries deltas for the current scene and a
\* move_to_scene target, the scene pushed onto scene_history carries those
\* deltas, and the scene resolution for the target works on the outgoing
\* scene with the deltas applied: the objects it leaves are the updated ones.
C25_DeltasBeforeMove ==
    (/\ op = "turn"
     /\ arg.update_exc = "None"
     /\ arg.target # NoId
     /\ pre.current_scene # 0
     /\ {"character_updates", "scene_updates"} \cap DOMAIN arg.result # {})
        => /\ scene_history = Append(pre.scene_history, pre.current_scene)
           /\ ret.called
           /\ sceneObjs[pre.current_scene] = SceneDeltas.sceneObjs[pre.current_scene]
           /\ Connections(pre.current_scene)
                  = SceneDeltas.dicts[sceneObjs[pre.current_scene].connections]
           /\ SubSeq(sceneObjs, 1, Len(pre.sceneObjs)) = SceneDeltas.sceneObjs
           /\ SubSeq(dicts, 1, Len(pre.dicts)) = SceneDeltas.dicts

\* a turn out of the entrance whose result wounds the Guard, adds the Rat, opens
\* the Trapdoor and moves on: the scene in the history shows all three
C25_Witness ==
    /\ op = "turn"
    /\ arg.result = ResultUpdatesMove
    /\ arg.update_exc = "None"
    /\ pre.current_scene # 0
    /\ scene_history # <<>>
    /\ LET pushed == scene_history[Len(scene_history)]
       IN /\ pushed = pre.current_scene
          /\ current_scene # pushed
          /\ Len(sceneObjs[pushed].characters) = 2
          /\ sceneObjs[pushed].characters[1].name = "Guard"
          /\ sceneObjs[pushed].characters[1].health = "hurt"
          /\ sceneObjs[pushed].characters[2].name = "Rat"
          /\ "Trapdoor" \in DOMAIN Connections(pushed)

\* the three deltas of update applied in another order than the code's: the
\* scene deltas, then the per-NPC deltas, then the player delta
UpdatePlayerLast(s, result) ==
    IF s.exc # "None" THEN s ELSE UpdatePlayer(s.gs, result)

UpdateReordered(gs, result) ==
    CheckGameOver(
        PushHistory(
            UpdatePlayerLast(UpdateNPCs(UpdateScene(Step(gs, "None"), result), result),
                             result),
            result),
        result)

\* C26: the player delta, the per-NPC deltas and the scene deltas of one
\* result leave the same state in any order: what a turn leaves is what the
\* deltas leave when the scene deltas are applied first and the player delta
\* last.
C26_DeltaOrderIrrelevant ==
    (op = "turn" /\ pre.current_scene # 0)
        => TurnLeaves(UpdateReordered(PreGS, arg.result))

\* C27: scene_history is append-only. Every update leaves the history it found
\* as a prefix of the history it leaves; an update that returns extends it by
\* exactly the scene that was current when the result has a non-empty
\* move_to_scene and a current scene exists, and by nothing otherwise; an
\* update that raises has not reached the push and extends it by nothing.
C27_HistoryAppendOnly ==
    op = "turn"
        => /\ Len(scene_history) >= Len(pre.scene_history)
           /\ SubSeq(scene_history, 1, Len(pre.scene_history)) = pre.scene_history
           /\ scene_history =
                  IF arg.update_exc = "None" /\ MoveTarget(arg.result) # NoId
                         /\ pre.current_scene # 0
                  THEN Append(pre.scene_history, pre.current_scene)
                  ELSE pre.scene_history

\* a third move: the two entries found are kept in place under the new one
C27_Witness ==
    /\ op = "turn"
    /\ Len(pre.scene_history) = 2
    /\ Len(scene_history) = 3
    /\ scene_history[1] # scene_history[2]
    /\ scene_history[3] = pre.current_scene

-----------------------------------------------------------------------------
(* Character.update and NPC.update, field by field *)

\* the Items an add_items list makes, in the order of the list
NewItems(updates) ==
    [i \in 1..Len(updates["add_items"]) |-> Item(updates["add_items"][i])]

\* C28: a Character.update with add_items and without remove_items that
\* returns leaves the inventory it found as a prefix and appends one Item per
\* add_items entry, in the order of the delta, also for a name already held;
\* with remove_items in the same delta, the items just added go with the
\* others of a removed name.
C28_AddItemsAppends ==
    (op = "character_update" /\ raised = "None" /\ "add_items" \in DOMAIN arg.updates)
        => IF "remove_items" \in DOMAIN arg.updates
           THEN player.inventory
                    = Others(pre.character.inventory \o NewItems(arg.updates),
                             Removed(arg.updates))
           ELSE /\ Len(player.inventory)
                       = Len(pre.character.inventory) + Len(arg.updates["add_items"])
                /\ player.inventory = pre.character.inventory \o NewItems(arg.updates)

\* a Rope and a Key added to an inventory that holds a Rope and a Key
C28_Witness ==
    /\ op = "character_update"
    /\ raised = "None"
    /\ pre.character.inventory = <<Rope, BrassKey>>
    /\ "add_items" \in DOMAIN arg.updates
    /\ "remove_items" \notin DOMAIN arg.updates
    /\ player.inventory = <<Rope, BrassKey, Rope, IronKey>>

\* new is old merged with delta key by key: a null value for a key of old
\* removes the key, any other value is stored, the other keys keep theirs
MergedAs(old, delta, new) ==
    /\ DOMAIN new \subseteq (DOMAIN old) \cup (DOMAIN delta)
    /\ \A k \in DOMAIN delta :
           IF delta[k] = Null /\ k \in DOMAIN old THEN k \notin DOMAIN new
           ELSE k \in DOMAIN new /\ new[k] = delta[k]
    /\ \A k \in (DOMAIN old) \ (DOMAIN delta) : k \in DOMAIN new /\ new[k] = old[k]

\* the value a replaced field holds after an update: the delta's, if it has one
Replaced(updates, key, old) == IF key \in DOMAIN updates THEN updates[key] ELSE old

\* C29: an NPC.update that returns has applied the Character merge (health and
\* energy replaced, status merged, items added and then removed by name),
\* has replaced attitude when the delta has attitude, and has merged the
\* NPC's property map key by key: null for an existing key removes the key,
\* any other value is stored under its key.
C29_NPCUpdateMerges ==
    (op = "npc_update" /\ raised = "None")
        => /\ player.health = Replaced(arg.updates, "health", pre.character.health)
           /\ player.energy = Replaced(arg.updates, "energy", pre.character.energy)
           /\ MergedAs(pre.character.status, Get(arg.updates, "status", EmptyDict),
                       player.status)
           /\ player.inventory
                  = Others(pre.character.inventory
                               \o [i \in 1..Len(Get(arg.updates, "add_items", <<>>)) |->
                                      Item(arg.updates["add_items"][i])],
                           {Get(arg.updates, "remove_items", <<>>)[i] :
                               i \in 1..Len(Get(arg.updates, "remove_items", <<>>))})
           /\ player.attitude = Replaced(arg.updates, "attitude", pre.character.attitude)
           /\ MergedAs(pre.character.properties, Get(arg.updates, "properties", EmptyDict),
                       player.properties)
           /\ player.name = pre.character.name
           /\ player.description = pre.character.description
           /\ player.skills = pre.character.skills

\* a delta with energy and properties, null for the mood the NPC has and a
\* new rank over the one it has: the mood is gone, the rank replaced
C29_Witness ==
    /\ op = "npc_update"
    /\ raised = "None"
    /\ pre.character.properties = [mood |-> "calm", rank |-> "sergeant"]
    /\ pre.character.energy = "energized"
    /\ player.properties = [rank |-> "captain"]
    /\ player.energy = "tired"
    /\ player.attitude = pre.character.attitude

\* the keys Character.update looks for
Recognised == {"health", "energy", "status", "add_items", "remove_items"}

\* C30: Character.update changes only the fields named by the recognised keys
\* the delta has. A delta that is empty or has unknown keys only, attitude and
\* properties among them for a Player, leaves the character as it was and
\* raises nothing; health and energy change only when the delta has their key,
\* and so do status and the inventory; name, description and skills never change.
C30_OnlyNamedFieldsChange ==
    op = "character_update"
        => /\ DOMAIN arg.updates \cap Recognised = {}
                  => player = pre.character /\ raised = "None"
           /\ "health" \notin DOMAIN arg.updates => player.health = pre.character.health
           /\ "energy" \notin DOMAIN arg.updates => player.energy = pre.character.energy
           /\ "status" \notin DOMAIN arg.updates => player.status = pre.character.status
           /\ {"add_items", "remove_items"} \cap DOMAIN arg.updates = {}
                  => player.inventory = pre.character.inventory
           /\ player.name = pre.character.name
           /\ player.description = pre.character.description
           /\ player.skills = pre.character.skills
           /\ DOMAIN player = DOMAIN pre.character

\* a Player that is poisoned and holds items is handed attitude and properties
C30_Witness ==
    /\ op = "character_update"
    /\ "attitude" \in DOMAIN arg.updates
    /\ "properties" \in DOMAIN arg.updates
    /\ pre.character.status # EmptyDict
    /\ pre.character.inventory # <<>>
    /\ player = pre.character

-----------------------------------------------------------------------------
(* Status maps, scene memory and the frame of a turn *)

\* C31: no character's status map holds a key whose value is null: a delta
\* that maps a status key to null leaves the key absent, whether or not the
\* character had the key.
C31_NoNullStatus ==
    \A k \in DOMAIN player.status : player.status[k] # Null

\* C32: scene memory has an entry for an id only if a resolution of that id
\* returned a Scene built from the generator's payload: when create_scene
\* returns the placeholder for its target, the memory has no entry for the
\* target afterwards.
C32_NoMemoryAfterFallback ==
    (SceneReturned /\ ret.fallback) => arg.target \notin DOMAIN scene_memory

\* the generator call of resolve_action failed in this turn
ActionFailed == op = "turn" /\ arg.action \in ActionFailures

\* C33: the result resolve_action returns when its generator call fails,
\* applied through GameState.update, leaves the whole state as it was before
\* the turn (player, current scene, scene history, game-over flag, ending
\* message, and with them the scenes, the scenario and the scene memory), and
\* no scene resolution follows.
C33_FailureResultChangesNothing ==
    ActionFailed
        => /\ Pre = pre
           /\ arg.update_exc = "None"
           /\ raised = "None"
           /\ ~ret.called
           /\ calls = arg.action_calls

\* a failed action in a scene the player has moved into
C33_Witness ==
    /\ ActionFailed
    /\ arg.result["success"] = FALSE
    /\ scene_history # <<>>
    /\ current_scene # 0
    /\ Pre = pre

\* C34: a scene pushed onto scene_history is a frozen record: a later turn
\* changes neither the characters nor the connections of an entry the history
\* held when the turn began.
C34_HistoryEntriesFrozen ==
    op = "turn"
        => \A i \in 1..Len(pre.scene_history) :
               Snapshot(sceneObjs, dicts, pre.scene_history[i])
                   = Snapshot(pre.sceneObjs, pre.dicts, pre.scene_history[i])

\* C35: GameState.update is all-or-nothing: when it raises while applying a
\* result, the game state is the one from before the call, with none of the
\* earlier steps of the result applied.
C35_UpdateAllOrNothing ==
    (op = "turn" /\ arg.update_exc # "None") => Pre = pre

\* C36: once the game state is ended, the turn loop makes no generator call
\* and does not change the current scene: a turn whose update ends the game
\* resolves no scene afterwards, also when its result names a target.
C36_NoResolutionAfterEnd ==
    (op = "turn" /\ is_game_over)
        => /\ ~ret.called
           /\ calls = arg.action_calls
           /\ current_scene = pre.current_scene

\* C37: with the scenario fixed after its creation, no scene id is both a key
\* of scene memory and a key of the scenario's scene map.
C37_MemoryDisjointFromScenario ==
    DOMAIN scene_memory \cap Predefined = {}

\* a predefined scene is resolved when the memory holds a generated one
C37_Witness ==
    /\ op = "turn"
    /\ SceneReturned
    /\ arg.target \in Predefined
    /\ scene_memory # EmptyDict

\* C38: a create_scenario call that fails leaves the stored scenario and the
\* scene memory exactly as they were; the stored scenario changes only on a
\* call whose payload passed validation.
C38_FailedScenarioKeepsState ==
    op = "create_scenario"
        => /\ raised # "None"
                  => /\ scenario = pre.scenario
                     /\ scene_memory = pre.scene_memory
                     /\ dicts = pre.dicts
           /\ scenario # pre.scenario
                  => /\ raised = "None"
                     /\ arg.gen \notin {Transport, Malformed, NoClient}
                     /\ ValidateScenario(arg.gen.data) = "None"
           /\ scene_memory = pre.scene_memory

\* the generator cannot be reached when a scenario is already stored
C38_Witness ==
    /\ op = "create_scenario"
    /\ arg.gen = Transport
    /\ raised = "Exception"
    /\ pre.scenario # EmptyDict
    /\ scenario = pre.scenario

\* the characters the scenario defines for a predefined scene, as NPCs
DefinedCharacters(scene_id) ==
    [i \in 1..Len(Get(scenario["scenes"][scene_id], "characters", <<>>)) |->
        NPCFromData(scenario["scenes"][scene_id]["characters"][i])]

\* C39: the Scene returned for a predefined id has the character list of the
\* scenario's definition of that scene: NPC deltas, added and removed
\* characters of earlier visits are not in the Scene returned on re-entry.
C39_PredefinedCharactersFresh ==
    (SceneReturned /\ arg.target \in Predefined)
        => sceneObjs[ret.scene].characters = DefinedCharacters(arg.target)

\* the entrance is entered again after its Guard was hurt and a Rat had come
\* in: the history holds that visit, the Scene returned has the Guard alone
\* and healthy
C39_Witness ==
    /\ op = "turn"
    /\ SceneReturned
    /\ arg.target = "entrance"
    /\ Len(sceneObjs[ret.scene].characters) = 1
    /\ sceneObjs[ret.scene].characters[1].health = "healthy"
    /\ \E i \in 1..Len(scene_history) :
           /\ sceneObjs[scene_history[i]].id = "entrance"
           /\ Len(sceneObjs[scene_history[i]].characters) = 2
           /\ sceneObjs[scene_history[i]].characters[1].health = "hurt"

====
